---- MODULE Spec2Model ----
(***************************************************************************)
(* Model of the command broker of KiCADMcpServer: the request queue, the   *)
(* processingRequest flag, the response buffer, the current request        *)
(* handler with its timeout, and the Python child on the other side of the *)
(* stdin/stdout pipes.  Every action is one callback of the Node event     *)
(* loop, run to completion.                                                *)
(***************************************************************************)
EXTENDS Integers, Sequences, FiniteSets, TLC

\* number of callKicadScript calls explored
MaxSubmits == 3

\* number of 'error' notifications of the child explored
MaxErrors == 1

\* callKicadScript: let commandTimeout = 30000
DefaultTimeout == 30000
\* callKicadScript: commandTimeout = 600000
LongTimeout == 600000

\* callKicadScript: const longRunningCommands = [...]
longRunningCommands == {"run_drc", "export_gerber", "export_pdf", "export_3d"}

\* command names the callers pass: the two the testable properties name
Commands == {"run_drc", "get_board_info"}

\* the long running commands and two of the others
AllCommands == longRunningCommands \cup {"get_board_info", "create_project"}

\* params values: one JSON.stringify can serialise, one it throws on
\* (a circular structure, a BigInt)
Params == {"plain", "circular"}

VARIABLES
    started,                \* start() has spawned the child and connected
    pythonProcess,          \* this.pythonProcess !== null
    requestQueue,           \* this.requestQueue
    processingRequest,      \* this.processingRequest
    responseBuffer,         \* this.responseBuffer, a sequence of characters
    currentRequestHandler,  \* this.currentRequestHandler, NoHandler for null
    timers,                 \* armed setTimeout(..., timeoutDuration) handles
    drainCallbacks,         \* posted setTimeout(() => processNextRequest(), 0)
    nextId,                 \* number of the next callKicadScript call
    future,                 \* the promise of each call
    delivered,              \* ids in the order their promises were settled
    resolveCalls,           \* how often resolve of each call was invoked
    rejectCalls,            \* how often reject of each call was invoked
    stdinLog,               \* ids of the requests written to the child's stdin
    lastLine,               \* the line written last to the child's stdin
    childTodo,              \* requests the child has read and not answered
    stdoutPipe,             \* characters the child wrote, not yet delivered
    chunkCount,             \* chunks appended to the buffer since cleared
    exited,                 \* the 'exit' handler has run
    stopped,                \* stop() has run
    pendingAtDown,          \* id of the call pending when the child went away
    queuedAtDown,           \* ids queued when the child went away
    processErrors,          \* 'error' notifications of the child logged
    categoryMap,            \* registry: categoryMap
    toolCategoryMap,        \* registry: toolCategoryMap
    registryCall            \* registry: the last call, argument and result

brokerVars == <<started, pythonProcess, requestQueue, processingRequest,
                responseBuffer, currentRequestHandler, timers, drainCallbacks,
                nextId, future, delivered, resolveCalls, rejectCalls, stdinLog,
                lastLine, childTodo, stdoutPipe, chunkCount, exited, stopped,
                pendingAtDown, queuedAtDown, processErrors>>

registryVars == <<categoryMap, toolCategoryMap, registryCall>>

vars == <<brokerVars, registryVars>>

Ids == 1..MaxSubmits

\* currentRequestHandler = null
NoTimer == [id |-> 0, duration |-> 0, command |-> ""]
NoHandler == [id |-> 0, timeoutHandle |-> NoTimer]

\* a promise that was not created yet, and one that is not settled
NoFuture == [state |-> "none", value |-> ""]
PendingFuture == [state |-> "pending", value |-> ""]

\* nothing was written to stdin yet
NoLine == [id |-> 0, text |-> [command |-> "", params |-> "", timeout |-> 0],
           newlines |-> 0]

----------------------------------------------------------------------------
\* Characters of the child's output.  A response document of the child is an
\* object whose content stands for the request it answers; print() may add
\* a newline after it.

Body(n) == ToString(n)
Bodies == {Body(n) : n \in Ids}

ChildDocs(n) == { <<"{", Body(n), "}">>, <<"{", Body(n), "}", "\n">> }

\* The content of a response document with success: false, and the JSON
\* document null.
FailBody(n) == ToString(0 - n)
AllBodies == Bodies \cup {FailBody(n) : n \in Ids}
NullValue == "null"

\* every document a child may print for request n
AnyChildDocs(n) == ChildDocs(n) \cup { <<"{", FailBody(n), "}">>,
                                       <<NullValue>> }

IsSpace(c) == c = "\n"

RECURSIVE TrimLeft(_)
TrimLeft(s) ==
    IF s # <<>> /\ IsSpace(Head(s)) THEN TrimLeft(Tail(s)) ELSE s

RECURSIVE TrimRight(_)
TrimRight(s) ==
    IF s # <<>> /\ IsSpace(s[Len(s)])
    THEN TrimRight(SubSeq(s, 1, Len(s) - 1))
    ELSE s

\* String.prototype.trim
Trim(s) == TrimRight(TrimLeft(s))

\* JSON.parse(text): the whole text must be one document, white space is
\* allowed around it.  ok = FALSE stands for the SyntaxError it throws.
JSONparse(text) ==
    LET core == Trim(text) IN
    IF /\ Len(core) = 3
       /\ core[1] = "{" /\ core[2] \in AllBodies /\ core[3] = "}"
    THEN [ok |-> TRUE, value |-> core[2]]
    ELSE IF Len(core) = 1 /\ core[1] \in AllBodies \cup {NullValue}
    THEN [ok |-> TRUE, value |-> core[1]]
    ELSE [ok |-> FALSE, value |-> ""]

----------------------------------------------------------------------------
\* Promise settlement: resolve and reject only act on a pending promise.

Settle(fut, id, st, val) ==
    IF fut[id].state = "pending"
    THEN [fut EXCEPT ![id] = [state |-> st, value |-> val]]
    ELSE fut

Deliver(fut, id, log) ==
    IF fut[id].state = "pending" THEN Append(log, id) ELSE log

\* the timeout policy of callKicadScript
CommandTimeoutMutant(command) == DefaultTimeout

CommandTimeout(command) ==
    IF command \in longRunningCommands THEN LongTimeout ELSE DefaultTimeout

\* const timeoutDuration = request.timeout || 30000
TimeoutDuration(request) ==
    IF request.timeout = 0 THEN DefaultTimeout ELSE request.timeout

----------------------------------------------------------------------------
Init ==
    /\ started = FALSE
    /\ pythonProcess = FALSE
    /\ requestQueue = <<>>
    /\ processingRequest = FALSE
    /\ responseBuffer = <<>>
    /\ currentRequestHandler = NoHandler
    /\ timers = {}
    /\ drainCallbacks = 0
    /\ nextId = 1
    /\ future = [n \in Ids |-> NoFuture]
    /\ delivered = <<>>
    /\ resolveCalls = [n \in Ids |-> 0]
    /\ rejectCalls = [n \in Ids |-> 0]
    /\ stdinLog = <<>>
    /\ lastLine = NoLine
    /\ childTodo = <<>>
    /\ stdoutPipe = <<>>
    /\ chunkCount = 0
    /\ exited = FALSE
    /\ stopped = FALSE
    /\ pendingAtDown = 0
    /\ queuedAtDown = <<>>
    /\ processErrors = 0
    /\ categoryMap = <<>>
    /\ toolCategoryMap = <<>>
    /\ registryCall = [op |-> "none", arg |-> "", result |-> "undefined"]

\* start(): spawn the child, register the handlers, connect the transport.
\* Requests reach callKicadScript only through the connected transport.
Start ==
    /\ ~started
    /\ started' = TRUE
    /\ pythonProcess' = TRUE
    /\ UNCHANGED <<requestQueue, processingRequest, responseBuffer,
                   currentRequestHandler, timers, drainCallbacks, nextId,
                   future, delivered, resolveCalls, rejectCalls, stdinLog,
                   lastLine, childTodo, stdoutPipe, chunkCount, exited,
                   stopped, pendingAtDown, queuedAtDown, processErrors,
                   registryVars>>

----------------------------------------------------------------------------
\* reject(error) of call id, invoked with the promise state fut
Reject(fut, id, err) == Settle(fut, id, "rejected", err)

\* this.requestQueue.shift()
ShiftMutant(q) == [item |-> q[Len(q)], rest |-> SubSeq(q, 1, Len(q) - 1)]

Shift(q) == [item |-> Head(q), rest |-> Tail(q)]

\* the catch block of processNextRequest, entered with error err while
\* the request item is being processed
CatchBlockMutant(item, fut, dlv, dc, err) ==
    /\ processingRequest' = TRUE
    /\ currentRequestHandler' = NoHandler
    /\ drainCallbacks' = dc + 1
    /\ future' = Reject(fut, item.id, err)
    /\ delivered' = Deliver(fut, item.id, dlv)
    /\ rejectCalls' = [rejectCalls EXCEPT ![item.id] = @ + 1]

CatchBlock(item, fut, dlv, dc, err) ==
    /\ processingRequest' = FALSE
    /\ currentRequestHandler' = NoHandler
    /\ drainCallbacks' = dc + 1
    /\ future' = Reject(fut, item.id, err)
    /\ delivered' = Deliver(fut, item.id, dlv)
    /\ rejectCalls' = [rejectCalls EXCEPT ![item.id] = @ + 1]

\* this.pythonProcess?.stdin?.write(requestStr + '\n'): nothing is written
\* and nothing is raised when the handle is null
StdinWriteMutant(item) ==
    IF pythonProcess
    THEN /\ stdinLog' = Append(Append(stdinLog, item.id), item.id)
         /\ lastLine' = [id |-> item.id, text |-> item.request,
                         newlines |-> 1]
         /\ childTodo' = Append(childTodo, item.id)
    ELSE UNCHANGED <<stdinLog, lastLine, childTodo>>

StdinWrite(item) ==
    IF pythonProcess
    THEN /\ stdinLog' = Append(stdinLog, item.id)
         /\ lastLine' = [id |-> item.id, text |-> item.request,
                         newlines |-> 1]
         /\ childTodo' = Append(childTodo, item.id)
    ELSE UNCHANGED <<stdinLog, lastLine, childTodo>>

\* processNextRequest(), called with the queue q and dc posted drain
\* callbacks.  Inside the try block JSON.stringify raises on params it
\* cannot serialise, and writeThrows says that stdin.write raises.
ProcessNextRequestMutant(q, fut, dlv, dc, writeThrows) ==
    IF q = <<>> \/ processingRequest
    THEN /\ requestQueue' = q
         /\ future' = fut
         /\ delivered' = dlv
         /\ drainCallbacks' = dc
         /\ UNCHANGED <<processingRequest, responseBuffer,
                        currentRequestHandler, timers, rejectCalls,
                        stdinLog, lastLine, childTodo, chunkCount>>
    ELSE LET item == Shift(q).item
             request == item.request
             timeoutHandle == [id |-> item.id,
                               duration |-> TimeoutDuration(request),
                               command |-> request.command]
         IN
         /\ requestQueue' = Shift(q).rest
         /\ IF request.params = "circular"
            THEN /\ CatchBlock(item, fut, dlv, dc, "stringify_error")
                 /\ UNCHANGED <<responseBuffer, timers, stdinLog, lastLine,
                                childTodo, chunkCount>>
            ELSE /\ responseBuffer' = responseBuffer
                 /\ chunkCount' = 0
                 /\ timers' = timers \cup {timeoutHandle}
                 /\ IF writeThrows /\ pythonProcess
                    THEN /\ CatchBlock(item, fut, dlv, dc, "write_error")
                         /\ UNCHANGED <<stdinLog, lastLine, childTodo>>
                    ELSE /\ processingRequest' = TRUE
                         /\ currentRequestHandler' =
                                [id |-> item.id,
                                 timeoutHandle |-> timeoutHandle]
                         /\ drainCallbacks' = dc
                         /\ future' = fut
                         /\ delivered' = dlv
                         /\ UNCHANGED rejectCalls
                         /\ StdinWrite(item)

ProcessNextRequest(q, fut, dlv, dc, writeThrows) ==
    IF q = <<>> \/ processingRequest
    THEN /\ requestQueue' = q
         /\ future' = fut
         /\ delivered' = dlv
         /\ drainCallbacks' = dc
         /\ UNCHANGED <<processingRequest, responseBuffer,
                        currentRequestHandler, timers, rejectCalls,
                        stdinLog, lastLine, childTodo, chunkCount>>
    ELSE LET item == Shift(q).item
             request == item.request
             timeoutHandle == [id |-> item.id,
                               duration |-> TimeoutDuration(request),
                               command |-> request.command]
         IN
         /\ requestQueue' = Shift(q).rest
         /\ IF request.params = "circular"
            THEN /\ CatchBlock(item, fut, dlv, dc, "stringify_error")
                 /\ UNCHANGED <<responseBuffer, timers, stdinLog, lastLine,
                                childTodo, chunkCount>>
            ELSE /\ responseBuffer' = <<>>
                 /\ chunkCount' = 0
                 /\ timers' = timers \cup {timeoutHandle}
                 /\ IF writeThrows /\ pythonProcess
                    THEN /\ CatchBlock(item, fut, dlv, dc, "write_error")
                         /\ UNCHANGED <<stdinLog, lastLine, childTodo>>
                    ELSE /\ processingRequest' = TRUE
                         /\ currentRequestHandler' =
                                [id |-> item.id,
                                 timeoutHandle |-> timeoutHandle]
                         /\ drainCallbacks' = dc
                         /\ future' = fut
                         /\ delivered' = dlv
                         /\ UNCHANGED rejectCalls
                         /\ StdinWrite(item)

\* callKicadScript when this.pythonProcess is null
SubmitNotRunningMutant(entry) ==
    /\ future' = [future EXCEPT ![entry.id] = [state |-> "rejected",
                                               value |-> "not_running"]]
    /\ delivered' = Append(delivered, entry.id)
    /\ rejectCalls' = [rejectCalls EXCEPT ![entry.id] = @ + 1]
    /\ requestQueue' = Append(requestQueue, entry)
    /\ UNCHANGED <<processingRequest, responseBuffer,
                   currentRequestHandler, timers, drainCallbacks,
                   stdinLog, lastLine, childTodo, chunkCount>>

SubmitNotRunning(entry) ==
    /\ future' = [future EXCEPT ![entry.id] = [state |-> "rejected",
                                               value |-> "not_running"]]
    /\ delivered' = Append(delivered, entry.id)
    /\ rejectCalls' = [rejectCalls EXCEPT ![entry.id] = @ + 1]
    /\ UNCHANGED <<requestQueue, processingRequest, responseBuffer,
                   currentRequestHandler, timers, drainCallbacks,
                   stdinLog, lastLine, childTodo, chunkCount>>

\* callKicadScript(command, params)
Submit(command, params, writeThrows) ==
    /\ started
    /\ nextId <= MaxSubmits
    /\ nextId' = nextId + 1
    /\ LET commandTimeout == CommandTimeout(command)
           entry == [id |-> nextId,
                     request |-> [command |-> command, params |-> params,
                                  timeout |-> commandTimeout]]
           fut == [future EXCEPT ![nextId] = PendingFuture]
       IN  IF ~pythonProcess
           THEN SubmitNotRunning(entry)
           ELSE ProcessNextRequest(Append(requestQueue, entry), fut,
                                   delivered, drainCallbacks, writeThrows)
    /\ UNCHANGED <<registryVars, processErrors,
                   started, pythonProcess, resolveCalls, stdoutPipe,
                   exited, stopped, pendingAtDown, queuedAtDown>>

\* the callback of setTimeout(() => this.processNextRequest(), 0)
DrainCallback(writeThrows) ==
    /\ drainCallbacks > 0
    /\ ProcessNextRequest(requestQueue, future, delivered,
                          drainCallbacks - 1, writeThrows)
    /\ UNCHANGED <<registryVars, processErrors,
                   started, pythonProcess, nextId, resolveCalls, stdoutPipe,
                   exited, stopped, pendingAtDown, queuedAtDown>>

\* the callback of setTimeout(..., timeoutDuration) in processNextRequest
TimerFireMutant(t) ==
    /\ t \in timers
    /\ timers' = timers \ {t}
    /\ responseBuffer' = <<>>
    /\ chunkCount' = 0
    /\ currentRequestHandler' = NoHandler
    /\ processingRequest' = FALSE
    /\ future' = Reject(future, t.id, "timeout")
    /\ delivered' = Deliver(future, t.id, delivered)
    /\ rejectCalls' = [rejectCalls EXCEPT ![t.id] = @ + 1]
    /\ UNCHANGED <<registryVars, processErrors,
                   started, pythonProcess, requestQueue, nextId,
                   drainCallbacks, resolveCalls, stdinLog, lastLine,
                   childTodo, stdoutPipe, exited, stopped, pendingAtDown,
                   queuedAtDown>>

TimerFire(t) ==
    /\ t \in timers
    /\ timers' = timers \ {t}
    /\ responseBuffer' = <<>>
    /\ chunkCount' = 0
    /\ currentRequestHandler' = NoHandler
    /\ processingRequest' = FALSE
    /\ future' = Reject(future, t.id, "timeout")
    /\ delivered' = Deliver(future, t.id, delivered)
    /\ rejectCalls' = [rejectCalls EXCEPT ![t.id] = @ + 1]
    /\ drainCallbacks' = drainCallbacks + 1
    /\ UNCHANGED <<registryVars, processErrors,
                   started, pythonProcess, requestQueue, nextId,
                   resolveCalls, stdinLog, lastLine, childTodo, stdoutPipe,
                   exited, stopped, pendingAtDown, queuedAtDown>>

\* tryParseResponse without a current request handler
NoPendingRequest(buffer) ==
    /\ IF Trim(buffer) # <<>>
       THEN responseBuffer' = <<>> /\ chunkCount' = 0
       ELSE /\ responseBuffer' = buffer
            /\ chunkCount' = IF responseBuffer = <<>> THEN 1
                             ELSE chunkCount + 1
    /\ UNCHANGED <<currentRequestHandler, processingRequest, timers,
                   future, delivered, resolveCalls, drainCallbacks>>

\* tryParseResponse when JSON.parse returned result
ParseSuccessMutant(handler, result) ==
    /\ timers' = timers \ {handler.timeoutHandle}
    /\ responseBuffer' = <<>>
    /\ chunkCount' = chunkCount + 1
    /\ currentRequestHandler' = NoHandler
    /\ processingRequest' = processingRequest
    /\ future' = Settle(future, handler.id, "resolved", result)
    /\ delivered' = Deliver(future, handler.id, delivered)
    /\ resolveCalls' = [resolveCalls EXCEPT ![handler.id] = @ + 1]
    /\ drainCallbacks' = drainCallbacks + 1

ParseSuccess(handler, result) ==
    /\ timers' = timers \ {handler.timeoutHandle}
    /\ responseBuffer' = <<>>
    /\ chunkCount' = chunkCount + 1
    /\ currentRequestHandler' = NoHandler
    /\ processingRequest' = FALSE
    /\ future' = Settle(future, handler.id, "resolved", result)
    /\ delivered' = Deliver(future, handler.id, delivered)
    /\ resolveCalls' = [resolveCalls EXCEPT ![handler.id] = @ + 1]
    /\ drainCallbacks' = drainCallbacks + 1

\* tryParseResponse when JSON.parse threw: keep collecting
ParseFailureMutant(buffer) ==
    /\ responseBuffer' = <<>>
    /\ chunkCount' = 0
    /\ UNCHANGED <<currentRequestHandler, processingRequest, timers,
                   future, delivered, resolveCalls, drainCallbacks>>

ParseFailure(buffer) ==
    /\ responseBuffer' = buffer
    /\ chunkCount' = chunkCount + 1
    /\ UNCHANGED <<currentRequestHandler, processingRequest, timers,
                   future, delivered, resolveCalls, drainCallbacks>>

\* result.success in the log line of tryParseResponse
Success(result) == result \in Bodies

\* tryParseResponse() on the buffer after the chunk was appended.  The read
\* of result.success for the log line raises a TypeError when result is
\* null, inside the try block: the catch block takes it for an incomplete
\* document.
TryParseResponseMutant(buffer) ==
    IF currentRequestHandler = NoHandler
    THEN NoPendingRequest(buffer)
    ELSE IF JSONparse(buffer).ok /\ Success(JSONparse(buffer).value)
    THEN ParseSuccess(currentRequestHandler, JSONparse(buffer).value)
    ELSE ParseFailure(buffer)

TryParseResponse(buffer) ==
    IF currentRequestHandler = NoHandler
    THEN NoPendingRequest(buffer)
    ELSE IF JSONparse(buffer).ok /\ JSONparse(buffer).value # NullValue
    THEN ParseSuccess(currentRequestHandler, JSONparse(buffer).value)
    ELSE ParseFailure(buffer)

\* handlePythonResponse(data); data is the first k characters waiting in
\* the stdout pipe
HandlePythonResponse(k) ==
    /\ k \in 1..Len(stdoutPipe)
    /\ stdoutPipe' = SubSeq(stdoutPipe, k + 1, Len(stdoutPipe))
    /\ TryParseResponse(responseBuffer \o SubSeq(stdoutPipe, 1, k))
    /\ UNCHANGED <<registryVars, processErrors,
                   started, pythonProcess, requestQueue, nextId, rejectCalls,
                   stdinLog, lastLine, childTodo, exited, stopped,
                   pendingAtDown, queuedAtDown>>

\* the child answers the oldest request it has read
ChildRespond ==
    /\ pythonProcess
    /\ childTodo # <<>>
    /\ \E doc \in ChildDocs(Head(childTodo)) :
           stdoutPipe' = stdoutPipe \o doc
    /\ childTodo' = Tail(childTodo)
    /\ UNCHANGED <<registryVars, processErrors,
                   started, pythonProcess, requestQueue, processingRequest,
                   responseBuffer, currentRequestHandler, timers,
                   drainCallbacks, nextId, future, delivered, resolveCalls,
                   rejectCalls, stdinLog, lastLine, chunkCount, exited,
                   stopped, pendingAtDown, queuedAtDown>>

\* the child answers the oldest request it has read with any document
ChildRespondAny ==
    /\ pythonProcess
    /\ childTodo # <<>>
    /\ \E doc \in AnyChildDocs(Head(childTodo)) :
           stdoutPipe' = stdoutPipe \o doc
    /\ childTodo' = Tail(childTodo)
    /\ UNCHANGED <<registryVars, processErrors,
                   started, pythonProcess, requestQueue, processingRequest,
                   responseBuffer, currentRequestHandler, timers,
                   drainCallbacks, nextId, future, delivered, resolveCalls,
                   rejectCalls, stdinLog, lastLine, chunkCount, exited,
                   stopped, pendingAtDown, queuedAtDown>>

QueuedIds == [i \in 1..Len(requestQueue) |-> requestQueue[i].id]

\* pythonProcess.on('exit', ...); the exit that follows stop() finds the
\* handle cleared already and changes nothing
ExitMutant ==
    /\ pythonProcess
    /\ exited' = TRUE
    /\ pythonProcess' = FALSE
    /\ pendingAtDown' = currentRequestHandler.id
    /\ queuedAtDown' = QueuedIds
    /\ IF currentRequestHandler # NoHandler
       THEN /\ future' = Reject(future, currentRequestHandler.id, "crash")
            /\ delivered' = Deliver(future, currentRequestHandler.id,
                                    delivered)
            /\ rejectCalls' =
                   [rejectCalls EXCEPT ![currentRequestHandler.id] = @ + 1]
       ELSE UNCHANGED <<future, delivered, rejectCalls>>
    /\ UNCHANGED <<registryVars, processErrors,
                   started, requestQueue, processingRequest, responseBuffer,
                   currentRequestHandler, timers, drainCallbacks, nextId,
                   resolveCalls, stdinLog, lastLine, childTodo, stdoutPipe,
                   chunkCount, stopped>>

Exit ==
    /\ pythonProcess
    /\ exited' = TRUE
    /\ pythonProcess' = FALSE
    /\ pendingAtDown' = currentRequestHandler.id
    /\ queuedAtDown' = QueuedIds
    /\ UNCHANGED <<registryVars, processErrors,
                   started, requestQueue, processingRequest, responseBuffer,
                   currentRequestHandler, timers, drainCallbacks, nextId,
                   future, delivered, resolveCalls, rejectCalls, stdinLog,
                   lastLine, childTodo, stdoutPipe, chunkCount, stopped>>

\* stop(); without a child it does nothing
StopMutant ==
    /\ pythonProcess
    /\ stopped' = TRUE
    /\ pythonProcess' = FALSE
    /\ pendingAtDown' = currentRequestHandler.id
    /\ queuedAtDown' = QueuedIds
    /\ IF currentRequestHandler # NoHandler
       THEN /\ future' = Reject(future, currentRequestHandler.id, "stopped")
            /\ delivered' = Deliver(future, currentRequestHandler.id,
                                    delivered)
            /\ rejectCalls' =
                   [rejectCalls EXCEPT ![currentRequestHandler.id] = @ + 1]
       ELSE UNCHANGED <<future, delivered, rejectCalls>>
    /\ UNCHANGED <<registryVars, processErrors,
                   started, requestQueue, processingRequest, responseBuffer,
                   currentRequestHandler, timers, drainCallbacks, nextId,
                   resolveCalls, stdinLog, lastLine, childTodo, stdoutPipe,
                   chunkCount, exited>>

Stop ==
    /\ pythonProcess
    /\ stopped' = TRUE
    /\ pythonProcess' = FALSE
    /\ pendingAtDown' = currentRequestHandler.id
    /\ queuedAtDown' = QueuedIds
    /\ UNCHANGED <<registryVars, processErrors,
                   started, requestQueue, processingRequest, responseBuffer,
                   currentRequestHandler, timers, drainCallbacks, nextId,
                   future, delivered, resolveCalls, rejectCalls, stdinLog,
                   lastLine, childTodo, stdoutPipe, chunkCount, exited>>

\* pythonProcess.on('error', ...): the handler writes a log line
ProcessErrorMutant ==
    /\ started
    /\ processErrors < MaxErrors
    /\ processErrors' = processErrors + 1
    /\ pythonProcess' = FALSE
    /\ UNCHANGED <<started, requestQueue, processingRequest, responseBuffer,
                   currentRequestHandler, timers, drainCallbacks, nextId,
                   future, delivered, resolveCalls, rejectCalls, stdinLog,
                   lastLine, childTodo, stdoutPipe, chunkCount, exited,
                   stopped, pendingAtDown, queuedAtDown, registryVars>>

ProcessError ==
    /\ started
    /\ processErrors < MaxErrors
    /\ processErrors' = processErrors + 1
    /\ UNCHANGED <<started, pythonProcess, requestQueue, processingRequest,
                   responseBuffer, currentRequestHandler, timers,
                   drainCallbacks, nextId, future, delivered, resolveCalls,
                   rejectCalls, stdinLog, lastLine, childTodo, stdoutPipe,
                   chunkCount, exited, stopped, pendingAtDown, queuedAtDown,
                   registryVars>>

SubmitAny(commands) ==
    \E c \in commands, p \in Params, w \in BOOLEAN : Submit(c, p, w)

Next ==
    \/ Start
    \/ SubmitAny(Commands)
    \/ \E w \in BOOLEAN : DrainCallback(w)
    \/ \E t \in timers : TimerFire(t)
    \/ \E k \in 1..Len(stdoutPipe) : HandlePythonResponse(k)
    \/ ChildRespond
    \/ Exit
    \/ Stop

Spec == Init /\ [][Next]_vars

\* the same broker driven with every command name
NextAllCommands ==
    \/ Start
    \/ SubmitAny(AllCommands)
    \/ \E w \in BOOLEAN : DrainCallback(w)
    \/ \E t \in timers : TimerFire(t)
    \/ \E k \in 1..Len(stdoutPipe) : HandlePythonResponse(k)
    \/ ChildRespond
    \/ Exit
    \/ Stop

SpecAllCommands == Init /\ [][NextAllCommands]_vars

\* the same broker with a child that may answer success: false or null
NextAnyOutput ==
    \/ Start
    \/ SubmitAny(Commands)
    \/ \E w \in BOOLEAN : DrainCallback(w)
    \/ \E t \in timers : TimerFire(t)
    \/ \E k \in 1..Len(stdoutPipe) : HandlePythonResponse(k)
    \/ ChildRespondAny
    \/ Exit
    \/ Stop

SpecAnyOutput == Init /\ [][NextAnyOutput]_vars

\* the same broker with a child that emits 'error' notifications
NextProcessError ==
    \/ Start
    \/ SubmitAny(Commands)
    \/ \E w \in BOOLEAN : DrainCallback(w)
    \/ \E t \in timers : TimerFire(t)
    \/ \E k \in 1..Len(stdoutPipe) : HandlePythonResponse(k)
    \/ ChildRespond
    \/ Exit
    \/ Stop
    \/ ProcessError

SpecProcessError == Init /\ [][NextProcessError]_vars

----------------------------------------------------------------------------
\* The tool registry (src/tools/registry): the categories of routed tools,
\* the direct tools, and the lookup maps built when the module is loaded.

\* export const toolCategories
toolCategories == <<
    [name |-> "board",
     description |->
         "Board configuration: layers, "
         \o "mounting holes, zones, visualization",
     tools |-> <<"add_layer", "set_active_layer", "get_layer_list",
                "add_mounting_hole", "add_board_text", "add_zone",
                "get_board_extents", "get_board_2d_view", "launch_kicad_ui">>],
    [name |-> "component",
     description |->
         "Advanced component operations: edit, "
         \o "delete, search, group, annotate",
     tools |-> <<"rotate_component", "delete_component", "edit_component",
                "find_component", "get_component_properties",
                "add_component_annotation", "group_components",
                "replace_component">>],
    [name |-> "export",
     description |->
         "File export for fabrication and "
         \o "documentation: Gerber, PDF, BOM, 3D models",
     tools |-> <<"export_gerber", "export_pdf", "export_svg", "export_3d",
                "export_bom", "export_netlist", "export_position_file",
                "export_vrml">>],
    [name |-> "drc",
     description |->
         "Design rule checking and electrical "
         \o "validation: DRC, net classes, clearances",
     tools |-> <<"set_design_rules", "get_design_rules", "run_drc",
                "add_net_class", "assign_net_to_class",
                "set_layer_constraints", "check_clearance",
                "get_drc_violations">>],
    [name |-> "schematic",
     description |->
         "Schematic operations: create, add "
         \o "components, wire connections, netlists",
     tools |-> <<"create_schematic", "add_schematic_component", "add_wire",
                "add_schematic_connection", "add_schematic_net_label",
                "connect_to_net", "get_net_connections", "generate_netlist",
                "get_schematic_info">>],
    [name |-> "library",
     description |->
         "Footprint library access: search, "
         \o "browse, get footprint information",
     tools |-> <<"list_libraries", "search_footprints",
                "list_library_footprints", "get_footprint_info">>],
    [name |-> "routing",
     description |->
         "Advanced routing operations: vias, copper pours",
     tools |-> <<"add_via", "add_copper_pour">>] >>

\* export const directToolNames
directToolNamesMutant == <<
    "create_project", "open_project", "save_project", "get_project_info",
    "place_component", "move_component", "add_net", "route_trace",
    "get_board_info", "set_board_size", "add_board_outline", "check_kicad_ui",
    "run_drc" >>

directToolNames == <<
    "create_project", "open_project", "save_project", "get_project_info",
    "place_component", "move_component", "add_net", "route_trace",
    "get_board_info", "set_board_size", "add_board_outline", "check_kicad_ui" >>

\* matches.slice(0, 20)
SearchLimit == 20

\* Map.prototype.set, has and get on a Map kept as its entries in
\* insertion order
MapSet(map, key, value) ==
    IF \E i \in DOMAIN map : map[i].key = key
    THEN [i \in DOMAIN map |->
              IF map[i].key = key THEN [key |-> key, value |-> value]
              ELSE map[i]]
    ELSE Append(map, [key |-> key, value |-> value])

MapHas(map, key) == \E i \in DOMAIN map : map[i].key = key

Undefined == "undefined"

MapGet(map, key) ==
    IF MapHas(map, key)
    THEN map[CHOOSE i \in DOMAIN map : map[i].key = key].value
    ELSE Undefined

\* String.prototype.toLowerCase and String.prototype.includes
UpperCase == "ABCDEFGHIJKLMNOPQRSTUVWXYZ"
LowerCase == "abcdefghijklmnopqrstuvwxyz"

LowerOf ==
    [c \in {SubSeq(UpperCase, i, i) : i \in 1..Len(UpperCase)} |->
        LET i == CHOOSE j \in 1..Len(UpperCase) : SubSeq(UpperCase, j, j) = c
        IN  SubSeq(LowerCase, i, i)]

LowerChar(c) == IF c \in DOMAIN LowerOf THEN LowerOf[c] ELSE c

RECURSIVE ToLowerCase(_)
ToLowerCase(s) ==
    IF Len(s) = 0 THEN ""
    ELSE IF Len(s) = 1 THEN LowerChar(s)
    ELSE LET half == Len(s) \div 2 IN
         ToLowerCase(SubSeq(s, 1, half))
             \o ToLowerCase(SubSeq(s, half + 1, Len(s)))

Includes(s, q) ==
    \E i \in 1..(Len(s) - Len(q) + 1) : SubSeq(s, i, i + Len(q) - 1) = q

\* initializeRegistry: the inner loop over category.tools
RECURSIVE SetTools(_, _, _)
SetTools(map, tools, categoryName) ==
    IF tools = <<>> THEN map
    ELSE SetTools(MapSet(map, Head(tools), categoryName), Tail(tools),
                  categoryName)

\* initializeRegistry: the loop over toolCategories, from the maps given
RECURSIVE BuildRegistry(_, _)
BuildRegistry(maps, categories) ==
    IF categories = <<>> THEN maps
    ELSE LET category == Head(categories) IN
         BuildRegistry(
             [categoryMap |-> MapSet(maps.categoryMap, category.name,
                                     category),
              toolCategoryMap |-> SetTools(maps.toolCategoryMap,
                                           category.tools, category.name)],
             Tail(categories))

\* the module was loaded: initializeRegistry has run
RegistryLoaded == categoryMap # <<>>

\* getToolCategory(toolName)
GetToolCategory(toolName) == MapGet(toolCategoryMap, toolName)

\* getRoutedToolNames()
RECURSIVE PushAllTools(_, _)
PushAllTools(allRoutedTools, categories) ==
    IF categories = <<>> THEN allRoutedTools
    ELSE PushAllTools(allRoutedTools \o Head(categories).tools,
                      Tail(categories))

GetRoutedToolNames == PushAllTools(<<>>, toolCategories)

\* isDirectTool(toolName), isRoutedTool(toolName)
IsDirectTool(toolName) ==
    \E i \in DOMAIN directToolNames : directToolNames[i] = toolName

IsRoutedTool(toolName) == MapHas(toolCategoryMap, toolName)

\* searchTools: the inner loop over category.tools, the pushes it makes
RECURSIVE ToolMatches(_, _, _, _)
ToolMatches(category, tools, q, categoryMatch) ==
    IF tools = <<>> THEN <<>>
    ELSE LET toolName == Head(tools)
             found == [category |-> category.name,
                       tool |-> toolName,
                       description |->
                           toolName \o " (" \o category.name \o ")"]
         IN  (IF Includes(ToLowerCase(toolName), q) \/ categoryMatch
              THEN <<found>> ELSE <<>>)
                 \o ToolMatches(category, Tail(tools), q, categoryMatch)

\* searchTools: the loop over toolCategories, the pushes it makes
RECURSIVE AllMatches(_, _)
AllMatches(categories, q) ==
    IF categories = <<>> THEN <<>>
    ELSE LET category == Head(categories)
             categoryMatch ==
                 \/ Includes(ToLowerCase(category.name), q)
                 \/ Includes(ToLowerCase(category.description), q)
         IN  ToolMatches(category, category.tools, q, categoryMatch)
                 \o AllMatches(Tail(categories), q)

\* Array.prototype.slice(0, end)
Slice(array, end) ==
    SubSeq(array, 1, IF Len(array) < end THEN Len(array) ELSE end)

\* searchTools(query)
SearchToolsMutant(query) ==
    AllMatches(toolCategories, ToLowerCase(query))

SearchTools(query) ==
    Slice(AllMatches(toolCategories, ToLowerCase(query)), SearchLimit)

\* getRegistryStats()
GetRegistryStats ==
    LET routedToolCount == Len(GetRoutedToolNames)
        directToolCount == Len(directToolNames)
    IN  [total_categories |-> Len(toolCategories),
         total_routed_tools |-> routedToolCount,
         total_direct_tools |-> directToolCount,
         total_tools |-> routedToolCount + directToolCount,
         categories |-> [i \in DOMAIN toolCategories |->
                            [name |-> toolCategories[i].name,
                             tool_count |-> Len(toolCategories[i].tools)]]]

\* tool names the callers ask about: every registered name, and names that
\* are not registered
DirectToolSet == {directToolNames[i] : i \in DOMAIN directToolNames}
RoutedToolSet == {GetRoutedToolNames[i] : i \in DOMAIN GetRoutedToolNames}
CategoryNames == {toolCategories[i].name : i \in DOMAIN toolCategories}
ToolNameInputs ==
    DirectToolSet \cup RoutedToolSet \cup CategoryNames
        \cup {"", "unknown_tool", "ADD_LAYER"}

\* search queries: the empty query, words of the names and descriptions in
\* lower, upper and mixed case, short pieces of the category names, and
\* words that occur nowhere
Queries ==
    {"", "a", "E", "_", "add", "ADD", "get", "Get_", "net", "layer", "via",
     "Board", "BOARD", "bom", "BOM", "Gerber", "gerber", "pdf", "PDF", "3d",
     "3D", "file", "File", "DRC", "Design", "search", "footprint", "copper",
     "advanced", "Advanced", "operations", ": ", "zzz", "kicad", "KiCad"}
        \cup CategoryNames
        \cup {SubSeq(n, 1, 3) : n \in CategoryNames}
        \cup {SubSeq(n, 2, 3) : n \in CategoryNames}

\* initializeRegistry()
InitializeRegistry ==
    LET maps == BuildRegistry([categoryMap |-> categoryMap,
                               toolCategoryMap |-> toolCategoryMap],
                              toolCategories)
    IN  /\ categoryMap' = maps.categoryMap
        /\ toolCategoryMap' = maps.toolCategoryMap
        /\ registryCall' = [op |-> "initializeRegistry", arg |-> "",
                            result |-> Undefined]
        /\ UNCHANGED brokerVars

\* the calls of the importing modules, each with its argument and result
CallIsDirectTool(toolName) ==
    /\ RegistryLoaded
    /\ registryCall' = [op |-> "isDirectTool", arg |-> toolName,
                        result |-> IsDirectTool(toolName)]
    /\ UNCHANGED <<categoryMap, toolCategoryMap, brokerVars>>

CallIsRoutedTool(toolName) ==
    /\ RegistryLoaded
    /\ registryCall' = [op |-> "isRoutedTool", arg |-> toolName,
                        result |-> IsRoutedTool(toolName)]
    /\ UNCHANGED <<categoryMap, toolCategoryMap, brokerVars>>

CallGetToolCategory(toolName) ==
    /\ RegistryLoaded
    /\ registryCall' = [op |-> "getToolCategory", arg |-> toolName,
                        result |-> GetToolCategory(toolName)]
    /\ UNCHANGED <<categoryMap, toolCategoryMap, brokerVars>>

CallSearchTools(query) ==
    /\ RegistryLoaded
    /\ registryCall' = [op |-> "searchTools", arg |-> query,
                        result |-> SearchTools(query)]
    /\ UNCHANGED <<categoryMap, toolCategoryMap, brokerVars>>

CallGetRegistryStats ==
    /\ RegistryLoaded
    /\ registryCall' = [op |-> "getRegistryStats", arg |-> "",
                        result |-> GetRegistryStats]
    /\ UNCHANGED <<categoryMap, toolCategoryMap, brokerVars>>

NextRegistry ==
    \/ InitializeRegistry
    \/ \E toolName \in ToolNameInputs : CallIsDirectTool(toolName)
    \/ \E toolName \in ToolNameInputs : CallIsRoutedTool(toolName)
    \/ \E toolName \in ToolNameInputs : CallGetToolCategory(toolName)
    \/ \E query \in Queries : CallSearchTools(query)
    \/ CallGetRegistryStats

SpecRegistry == Init /\ [][NextRegistry]_vars

----------------------------------------------------------------------------
\* Vocabulary of the properties

Settled(n) == future[n].state \in {"resolved", "rejected"}

\* a step of handlePythonResponse, and the chunk it received
ChunkStep == Len(stdoutPipe') < Len(stdoutPipe)
ChunkData == SubSeq(stdoutPipe, 1, Len(stdoutPipe) - Len(stdoutPipe'))

\* the broker is Idle with requests waiting
IdleWithQueue == ~processingRequest /\ requestQueue # <<>>

\* a step in which processNextRequest takes the head of the queue
DrainStep == IdleWithQueue /\ requestQueue' # requestQueue

\* the call settled last was rejected by its deadline
LastWasTimeout ==
    /\ delivered # <<>>
    /\ future[delivered[Len(delivered)]].value = "timeout"

TypeOK ==
    /\ started \in BOOLEAN
    /\ pythonProcess \in BOOLEAN
    /\ processingRequest \in BOOLEAN
    /\ drainCallbacks \in Nat
    /\ nextId \in 1..(MaxSubmits + 1)
    /\ \A n \in Ids : future[n].state \in
           {"none", "pending", "resolved", "rejected"}

----------------------------------------------------------------------------
\* C1: at most one request is in flight: no request is written to the child
\* while the future of a request written earlier is still unsettled.
C1_AtMostOneInFlight ==
    [][stdinLog' # stdinLog =>
         \A i \in DOMAIN stdinLog : future[stdinLog[i]].state # "pending"]_vars

\* C2: the futures resolve in the order the calls were submitted; while no
\* call has been rejected the calls are settled exactly as 1, 2, 3, ...
C2_ResolveInSubmissionOrder ==
    LET resolved == SelectSeq(delivered,
                              LAMBDA n : future[n].state = "resolved")
    IN  /\ \A p, q \in DOMAIN resolved : p < q => resolved[p] < resolved[q]
        /\ (\A n \in Ids : future[n].state # "rejected")
               => \A p \in DOMAIN delivered : delivered[p] = p

C2_Witness ==
    /\ delivered = <<1, 2, 3>>
    /\ \A n \in {1, 2, 3} :
           future[n] = [state |-> "resolved", value |-> Body(n)]

\* C3: a submit without a child handle rejects its future at once with the
\* process-not-running error and changes nothing else of the broker.
C3_NotRunningRejects ==
    [][(nextId' = nextId + 1 /\ ~pythonProcess) =>
          /\ future' = [future EXCEPT ![nextId] =
                           [state |-> "rejected", value |-> "not_running"]]
          /\ delivered' = Append(delivered, nextId)
          /\ UNCHANGED <<requestQueue, stdinLog, lastLine, childTodo,
                         processingRequest, currentRequestHandler, timers,
                         responseBuffer, drainCallbacks>>]_vars

C3_Witness ==
    /\ \E n \in Ids : future[n].value = "not_running"
    /\ currentRequestHandler # NoHandler
    /\ requestQueue # <<>>

\* C4: every armed deadline, and the timeout of every written request, is
\* 600000 for run_drc, export_gerber, export_pdf and export_3d and 30000
\* for every other command.
C4_TimeoutPolicy ==
    LET policy(c) ==
            IF c \in {"run_drc", "export_gerber", "export_pdf", "export_3d"}
            THEN 600000 ELSE 30000
    IN  /\ \A t \in timers : t.duration = policy(t.command)
        /\ currentRequestHandler # NoHandler =>
               currentRequestHandler.timeoutHandle.duration =
                   policy(currentRequestHandler.timeoutHandle.command)
        /\ lastLine # NoLine =>
               lastLine.text.timeout = policy(lastLine.text.command)

C4_Witness ==
    /\ currentRequestHandler.timeoutHandle.command = "export_3d"
    /\ currentRequestHandler.timeoutHandle.duration = 600000
    /\ currentRequestHandler.timeoutHandle \in timers
    /\ \E t \in timers : t.command = "create_project" /\ t.duration = 30000

\* C5: while the buffer with the new chunk is a proper prefix of a response
\* document the pending call is not settled and the prefix is kept; the
\* chunk that completes the document resolves the call, in that step, with
\* the decoded document.
C5_ChunkedResponse ==
    [][(ChunkStep /\ currentRequestHandler # NoHandler) =>
          LET buf == responseBuffer \o ChunkData
              id == currentRequestHandler.id
          IN  /\ (\E b \in Bodies : buf \in {<<"{">>, <<"{", b>>}) =>
                     /\ future' = future
                     /\ currentRequestHandler' = currentRequestHandler
                     /\ responseBuffer' = buf
              /\ \A b \in Bodies : buf = <<"{", b, "}">> =>
                     /\ future'[id] = [state |-> "resolved", value |-> b]
                     /\ currentRequestHandler' = NoHandler]_vars

C5_Witness ==
    /\ chunkCount = 3
    /\ stdinLog = <<1>>
    /\ delivered = <<1>>
    /\ future[1] = [state |-> "resolved", value |-> Body(1)]

\* C6 as stated: the fire of the pending call's deadline rejects it with a
\* timeout, clears buffer and pending call, leaves the broker Idle, and the
\* next drain step writes the request queued behind it to the child.
C6_TimeoutThenWrite ==
    [][/\ \A t \in timers :
            (t = currentRequestHandler.timeoutHandle /\ t \notin timers'
               /\ rejectCalls'[t.id] = rejectCalls[t.id] + 1) =>
                /\ future'[t.id] = [state |-> "rejected", value |-> "timeout"]
                /\ responseBuffer' = <<>>
                /\ currentRequestHandler' = NoHandler
                /\ ~processingRequest'
                /\ drainCallbacks' = drainCallbacks + 1
       /\ (DrainStep /\ LastWasTimeout) =>
              stdinLog' = Append(stdinLog, Head(requestQueue).id)]_vars

\* C6 amended: the fire does all of that and posts a drain callback, so the
\* broker is never Idle with a waiting request and no drain posted; the
\* next drain step takes the request queued behind, and writes it exactly
\* when the child handle is present and the drain step raises no error.
C6_TimeoutThenDrain ==
    [][/\ \A t \in timers :
            (t = currentRequestHandler.timeoutHandle /\ t \notin timers'
               /\ rejectCalls'[t.id] = rejectCalls[t.id] + 1) =>
                /\ future'[t.id] = [state |-> "rejected", value |-> "timeout"]
                /\ responseBuffer' = <<>>
                /\ currentRequestHandler' = NoHandler
                /\ ~processingRequest'
                /\ drainCallbacks' = drainCallbacks + 1
       /\ IdleWithQueue' => drainCallbacks' > 0
       /\ (DrainStep /\ LastWasTimeout) =>
              LET id == Head(requestQueue).id IN
              \/ /\ currentRequestHandler'.id = id
                 /\ processingRequest'
                 /\ stdinLog' = IF pythonProcess THEN Append(stdinLog, id)
                                ELSE stdinLog
              \/ /\ future'[id].state = "rejected"
                 /\ future'[id].value \in {"stringify_error", "write_error"}
                 /\ stdinLog' = stdinLog]_vars

C6_Witness ==
    /\ LastWasTimeout
    /\ IdleWithQueue
    /\ drainCallbacks > 0
    /\ currentRequestHandler = NoHandler
    /\ responseBuffer = <<>>

\* C7: the results of any two calls are delivered in the order the calls
\* were submitted, whatever their outcomes.
C7_DeliveryInSubmissionOrder ==
    \A p, q \in DOMAIN delivered : p < q => delivered[p] < delivered[q]

\* C8: a pending call exists exactly when the broker is busy.
C8_PendingIffBusy ==
    (currentRequestHandler # NoHandler) <=> processingRequest

C8_Witness ==
    /\ processingRequest
    /\ currentRequestHandler # NoHandler
    /\ \E n \in Ids : future[n].value = "timeout"
    /\ \E n \in Ids : future[n].value = "write_error"
    /\ exited

\* C9: the step that completes a pending call (parse success, deadline
\* fire, error in the drain step) leaves no armed timer of that call, an
\* empty buffer, no pending call, the future settled and the broker Idle.
C9_CompletionCleansUp ==
    [][\A n \in Ids :
          (/\ \/ resolveCalls'[n] > resolveCalls[n]
              \/ rejectCalls'[n] > rejectCalls[n]
           /\ future'[n].value \notin {"not_running", "stringify_error"}) =>
              /\ \A t \in timers' : t.id # n
              /\ responseBuffer' = <<>>
              /\ currentRequestHandler' = NoHandler
              /\ Settled(n)'
              /\ ~processingRequest']_vars

\* C10 as stated: the call pending when the child exits is never settled.
C10_UnresolvedForever ==
    (exited /\ pendingAtDown # 0) => future[pendingAtDown].state = "pending"

\* C10 amended: the exit notification settles nothing and leaves the
\* pending call and its timer in place; the call stays unsettled until its
\* own deadline rejects it with a timeout or output still in the pipe
\* resolves it, and as long as it is unsettled its deadline is armed.
C10_ExitLeavesPending ==
    [][/\ (exited' /\ ~exited) =>
              UNCHANGED <<future, delivered, resolveCalls, rejectCalls,
                          currentRequestHandler, timers, requestQueue,
                          processingRequest, responseBuffer, drainCallbacks>>
       /\ (exited' /\ pendingAtDown' # 0) =>
              LET f == future'[pendingAtDown'] IN
              /\ \/ f.state = "pending"
                 \/ f.state = "resolved"
                 \/ f = [state |-> "rejected", value |-> "timeout"]
              /\ f.state = "pending" =>
                     \E t \in timers' : t.id = pendingAtDown']_vars

C10_Witness ==
    /\ exited
    /\ pendingAtDown # 0
    /\ future[pendingAtDown] = [state |-> "rejected", value |-> "timeout"]

----------------------------------------------------------------------------
\* More vocabulary

\* ids waiting in the queue, ids written to the child, ids accepted
QueuedSet == {requestQueue[i].id : i \in DOMAIN requestQueue}
WrittenSet == {stdinLog[i] : i \in DOMAIN stdinLog}
Accepted(n) == future[n].state # "none" /\ future[n].value # "not_running"

\* the step in which stop() kills the child
StopStep == stopped' /\ ~stopped

\* C11: stop() clears the process handle and changes nothing else: queue,
\* busy flag, pending call, timers, buffer and every future stay as they
\* were.
C11_StopChangesOnlyHandle ==
    [][StopStep =>
          /\ ~pythonProcess'
          /\ UNCHANGED <<requestQueue, processingRequest,
                         currentRequestHandler, timers, responseBuffer,
                         future, delivered, resolveCalls, rejectCalls,
                         drainCallbacks, stdinLog, lastLine>>]_vars

C11_Witness ==
    /\ stopped
    /\ currentRequestHandler # NoHandler
    /\ currentRequestHandler.id = pendingAtDown
    /\ currentRequestHandler.timeoutHandle \in timers
    /\ future[pendingAtDown].state = "pending"
    /\ QueuedIds = queuedAtDown
    /\ requestQueue # <<>>
    /\ responseBuffer # <<>>

\* C12 as stated: the calls pending or queued when stop() ran are never
\* rejected.
C12_NeverRejectedAfterStop ==
    stopped =>
        /\ pendingAtDown # 0 => future[pendingAtDown].state # "rejected"
        /\ \A i \in DOMAIN queuedAtDown :
               future[queuedAtDown[i]].state # "rejected"

\* C12 amended: the calls pending or queued when stop() ran are never
\* rejected for the shutdown; each stays unsettled until its own deadline
\* rejects it with a timeout (a queued one also by a serialisation error
\* when it is drained) or output still in the pipe resolves it, and while
\* it is unsettled it is still queued or has its deadline armed.
C12_StopLeavesCallsToDeadline ==
    stopped =>
        /\ pendingAtDown # 0 =>
               LET f == future[pendingAtDown] IN
               /\ \/ f.state \in {"pending", "resolved"}
                  \/ f = [state |-> "rejected", value |-> "timeout"]
               /\ f.state = "pending" =>
                      \E t \in timers : t.id = pendingAtDown
        /\ \A i \in DOMAIN queuedAtDown :
               LET n == queuedAtDown[i]
                   f == future[n]
               IN  /\ \/ f.state \in {"pending", "resolved"}
                      \/ /\ f.state = "rejected"
                         /\ f.value \in {"timeout", "stringify_error"}
                   /\ f.state = "pending" =>
                          \/ n \in QueuedSet
                          \/ \E t \in timers : t.id = n

C12_Witness ==
    /\ stopped
    /\ pendingAtDown # 0
    /\ future[pendingAtDown] = [state |-> "rejected", value |-> "timeout"]
    /\ queuedAtDown # <<>>
    /\ future[queuedAtDown[1]] = [state |-> "rejected", value |-> "timeout"]

\* C13: no error path leaves the broker stuck: a busy broker has a pending
\* call whose deadline is armed, an idle broker with waiting requests has a
\* drain posted, every accepted unsettled call is queued, pending or has
\* its deadline armed, and the pending call was written to the child
\* unless the child handle is gone.
C13_NoErrorIsFatal ==
    /\ processingRequest =>
           /\ currentRequestHandler # NoHandler
           /\ currentRequestHandler.timeoutHandle \in timers
    /\ IdleWithQueue => drainCallbacks > 0
    /\ \A n \in Ids : future[n].state = "pending" =>
           \/ n \in QueuedSet
           \/ currentRequestHandler.id = n
           \/ \E t \in timers : t.id = n
    /\ (currentRequestHandler # NoHandler /\ pythonProcess) =>
           currentRequestHandler.id \in WrittenSet

C13_Witness ==
    /\ pythonProcess
    /\ \E n \in Ids : future[n].value = "timeout"
    /\ \E n \in Ids : future[n].value \in {"write_error", "stringify_error"}
    /\ currentRequestHandler.id = MaxSubmits
    /\ stdinLog # <<>>
    /\ stdinLog[Len(stdinLog)] = MaxSubmits

\* C14: requests are written to the child in the order submit accepted
\* them; an accepted request that an earlier written one has overtaken
\* was rejected by an error of its drain step.
C14_WrittenInAcceptedOrder ==
    /\ \A p, q \in DOMAIN stdinLog : p < q => stdinLog[p] < stdinLog[q]
    /\ \A n \in WrittenSet : \A m \in Ids :
           (m < n /\ Accepted(m) /\ m \notin WrittenSet) =>
               future[m].value \in {"stringify_error", "write_error"}

C14_Witness ==
    /\ stdinLog = <<1, 2>>
    /\ currentRequestHandler.id = 2
    /\ QueuedIds = <<3>>
    /\ drainCallbacks = 1
    /\ delivered = <<1>>

\* C15: every write to the child is made by a drain step for the request
\* it has just taken from the head of the queue; a request never returns
\* to the queue and is never written twice.
C15_WriteOnlyInDrainOnce ==
    [][/\ stdinLog' # stdinLog =>
              LET head == IF requestQueue # <<>> THEN Head(requestQueue).id
                          ELSE nextId
              IN  /\ ~processingRequest
                  /\ stdinLog' = Append(stdinLog, head)
                  /\ head \notin WrittenSet
                  /\ head \notin QueuedSet'
                  /\ currentRequestHandler'.id = head
                  /\ requestQueue = <<>> => nextId' = nextId + 1
       /\ QueuedSet' \subseteq (QueuedSet \cup {nextId})
       /\ Len(requestQueue') = Cardinality(QueuedSet')
       /\ QueuedSet' \cap WrittenSet' = {}
       /\ Len(stdinLog') = Cardinality(WrittenSet')]_vars

C15_Witness ==
    /\ drainCallbacks >= 2
    /\ Len(stdinLog) >= 2
    /\ currentRequestHandler # NoHandler
    /\ currentRequestHandler.id = stdinLog[Len(stdinLog)]

\* C16: every resolved future carries the child's response to its own
\* request.
C16_ResolvedWithOwnResponse ==
    \A n \in Ids : future[n].state = "resolved" => future[n].value = Body(n)

\* C17: a request drained while the child handle is absent is rejected in
\* that drain step and does not become the pending call.
C17_DrainWithoutChildRejects ==
    [][(~pythonProcess /\ DrainStep) =>
          /\ future'[Head(requestQueue).id].state = "rejected"
          /\ currentRequestHandler' = NoHandler
          /\ ~processingRequest']_vars

\* C18: whenever no pending call exists the response buffer is empty.
C18_BufferEmptyWhenIdle ==
    currentRequestHandler = NoHandler => responseBuffer = <<>>

\* C19: the armed deadline timers are exactly the timer stored in the
\* pending call, and a timer only fires for a call that is not yet settled.
C19_OneTimerPerPendingCall ==
    [][/\ timers' = IF currentRequestHandler' = NoHandler THEN {}
                    ELSE {currentRequestHandler'.timeoutHandle}
       /\ \A t \in timers :
              (t \notin timers' /\ rejectCalls'[t.id] > rejectCalls[t.id])
                  => future[t.id].state = "pending"]_vars

\* C20: the step in which stop() runs leaves no pending call.
C20_StopDestroysPendingCall ==
    [][StopStep => currentRequestHandler' = NoHandler]_vars

----------------------------------------------------------------------------
\* a quiescent point: no drain callback is posted
Quiescent == drainCallbacks = 0

CompletionOf(n) ==
    resolveCalls'[n] + rejectCalls'[n] > resolveCalls[n] + rejectCalls[n]

\* C22: the re-drain after a completion is deferred: the step that completes
\* a call (parse success, deadline fire, error of the drain step) writes
\* nothing to the child, takes no other request from the queue, leaves no
\* pending call and leaves a drain callback posted.
C22_CompletionDefersDrain ==
    [][\A n \in Ids :
          (CompletionOf(n) /\ future'[n].value # "not_running") =>
              /\ UNCHANGED <<stdinLog, lastLine, childTodo>>
              /\ (QueuedSet \ QueuedSet') \subseteq {n}
              /\ currentRequestHandler' = NoHandler
              /\ ~processingRequest'
              /\ drainCallbacks' > 0]_vars

C22_Witness ==
    /\ IdleWithQueue
    /\ drainCallbacks = 1
    /\ delivered = <<1>>
    /\ future[1].state = "resolved"
    /\ stdinLog = <<1>>
    /\ QueuedIds = <<2, 3>>

\* a step of callKicadScript, and one that finds the child handle present
SubmitStep == nextId' = nextId + 1
AcceptedSubmitStep == SubmitStep /\ pythonProcess

\* the request a drain step started by this submit takes from the queue
SubmitHead == IF requestQueue = <<>> THEN nextId ELSE Head(requestQueue).id

\* what a submit accepted while Busy does: append to the tail, nothing else
BusySubmitOnlyAppends ==
    /\ QueuedIds' = Append(QueuedIds, nextId)
    /\ future' = [future EXCEPT ![nextId] = PendingFuture]
    /\ UNCHANGED <<stdinLog, lastLine, childTodo, currentRequestHandler,
                   timers, responseBuffer, processingRequest,
                   drainCallbacks, delivered>>

\* C23 as stated: a submit accepted while Busy only appends the request; a
\* submit accepted while Idle leaves the broker Busy with a request written.
C23_IdleSubmitWrites ==
    [][AcceptedSubmitStep =>
          IF processingRequest
          THEN BusySubmitOnlyAppends
          ELSE /\ processingRequest'
               /\ currentRequestHandler'.id = SubmitHead
               /\ stdinLog' = Append(stdinLog, SubmitHead)]_vars

\* C23 amended: a submit accepted while Busy only appends the request; a
\* submit accepted while Idle runs a drain step for the head of the queue,
\* which leaves the broker Busy with that request written and its deadline
\* armed, or, when serialising or writing it raises, rejects that request,
\* writes nothing and leaves the broker Idle with a drain posted.
C23_IdleSubmitDrains ==
    [][AcceptedSubmitStep =>
          IF processingRequest
          THEN BusySubmitOnlyAppends
          ELSE /\ QueuedIds' = Tail(Append(QueuedIds, nextId))
               /\ \/ /\ processingRequest'
                     /\ currentRequestHandler'.id = SubmitHead
                     /\ currentRequestHandler'.timeoutHandle \in timers'
                     /\ stdinLog' = Append(stdinLog, SubmitHead)
                     /\ responseBuffer' = <<>>
                  \/ /\ future'[SubmitHead].state = "rejected"
                     /\ future'[SubmitHead].value \in
                            {"stringify_error", "write_error"}
                     /\ ~processingRequest'
                     /\ currentRequestHandler' = NoHandler
                     /\ stdinLog' = stdinLog
                     /\ drainCallbacks' = drainCallbacks + 1]_vars

C23_Witness ==
    /\ processingRequest
    /\ currentRequestHandler.id = 2
    /\ stdinLog = <<2>>
    /\ QueuedIds = <<3>>
    /\ responseBuffer # <<>>
    /\ future[1].value = "stringify_error"

\* the child has exited or was killed by stop()
ChildGone == exited \/ stopped

\* C24: once the child has exited or was killed by stop() the handle is
\* cleared and stays cleared, and every later submit is rejected in its own
\* step with the process-not-running error and is not enqueued or written.
C24_SubmitAfterDownRejected ==
    [][/\ ChildGone' => ~pythonProcess'
       /\ (SubmitStep /\ ChildGone) =>
              /\ future'[nextId] =
                     [state |-> "rejected", value |-> "not_running"]
              /\ rejectCalls'[nextId] = 1
              /\ resolveCalls'[nextId] = 0
              /\ nextId \notin QueuedSet'
              /\ UNCHANGED <<requestQueue, stdinLog, lastLine, timers,
                             currentRequestHandler>>]_vars

C24_Witness ==
    /\ stopped
    /\ future[1].state = "pending"
    /\ future[2].value = "not_running"
    /\ future[3].value = "not_running"
    /\ delivered = <<2, 3>>

\* The event loop runs every armed timer and every posted drain callback
\* eventually; nothing is assumed about the child or the callers.
Fairness ==
    /\ WF_vars(\E t \in timers : TimerFire(t))
    /\ WF_vars(\E w \in BOOLEAN : DrainCallback(w))

SpecLive == Init /\ [][Next]_vars /\ Fairness

\* C25: every request accepted into the queue is eventually settled, when
\* armed timers and posted drain callbacks eventually run, whatever the
\* child does.
C25_AcceptedEventuallySettled ==
    \A n \in Ids : (future[n].state = "pending") ~> Settled(n)

C25_Witness ==
    /\ ChildGone
    /\ childTodo # <<>>
    /\ pendingAtDown # 0
    /\ queuedAtDown # <<>>
    /\ \A n \in Ids : Settled(n)
    /\ future[queuedAtDown[Len(queuedAtDown)]].value = "timeout"
    /\ timers = {}

\* C26: the resolve and reject callbacks of one call are invoked at most
\* once in total, over all paths.
C26_SettledAtMostOnce ==
    \A n \in Ids : resolveCalls[n] + rejectCalls[n] <= 1

\* the buffer with the chunk of this step appended
ChunkBuffer == responseBuffer \o ChunkData

\* C27: whenever the buffer with the new chunk is one complete JSON document
\* of any kind (object, scalar, null) while a call is pending, that call is
\* resolved with the decoded value in the same step.
C27_AnyDocumentResolves ==
    [][(ChunkStep /\ currentRequestHandler # NoHandler
          /\ JSONparse(ChunkBuffer).ok) =>
          /\ future'[currentRequestHandler.id] =
                 [state |-> "resolved", value |-> JSONparse(ChunkBuffer).value]
          /\ currentRequestHandler' = NoHandler]_vars

\* C28: only a call that was drained can time out: a request waiting in the
\* queue has no armed timer, none of its callbacks was invoked and its
\* future is pending; every armed timer and every timeout rejection belongs
\* to a request that has left the queue.
C28_QueuedHasNoDeadline ==
    /\ \A n \in QueuedSet :
           /\ future[n] = PendingFuture
           /\ rejectCalls[n] = 0
           /\ resolveCalls[n] = 0
           /\ \A t \in timers : t.id # n
    /\ \A n \in Ids : future[n].value = "timeout" => n \notin QueuedSet

C28_Witness ==
    /\ QueuedIds = <<3>>
    /\ currentRequestHandler.id = 2
    /\ timers = {currentRequestHandler.timeoutHandle}
    /\ future[1] = [state |-> "rejected", value |-> "timeout"]
    /\ Quiescent

\* C29: output received while no pending call exists is never delivered: the
\* chunk step settles nothing and creates no pending call, every pending
\* call starts with an empty buffer, and while a call is pending the buffer
\* only grows by the chunks received for it.
C29_IdleOutputNeverDelivered ==
    [][/\ (ChunkStep /\ currentRequestHandler = NoHandler) =>
              UNCHANGED <<future, delivered, resolveCalls, rejectCalls,
                          currentRequestHandler, processingRequest>>
       /\ (currentRequestHandler' # NoHandler
             /\ currentRequestHandler' # currentRequestHandler) =>
              /\ currentRequestHandler = NoHandler
              /\ responseBuffer' = <<>>
       /\ (currentRequestHandler # NoHandler
             /\ currentRequestHandler' = currentRequestHandler) =>
              \/ responseBuffer' = responseBuffer
              \/ ChunkStep /\ responseBuffer' = ChunkBuffer]_vars

C29_Witness ==
    /\ currentRequestHandler.id = 2
    /\ future[1] = [state |-> "rejected", value |-> "timeout"]
    /\ future[2] = PendingFuture
    /\ childTodo = <<2>>
    /\ stdoutPipe = <<>>
    /\ responseBuffer = <<>>

\* C30: the broker rejects a future only for process-not-running, timeout or
\* an error of the drain step; a complete response document with success:
\* false resolves the pending call with that document in the step that
\* completes it, as one with success: true does.
C30_FailureResponseResolves ==
    [][/\ \A n \in Ids : future'[n].state = "rejected" =>
              future'[n].value \in {"not_running", "timeout",
                                    "stringify_error", "write_error"}
       /\ (ChunkStep /\ currentRequestHandler # NoHandler) =>
              \A b \in AllBodies :
                  Trim(ChunkBuffer) = <<"{", b, "}">> =>
                      /\ future'[currentRequestHandler.id] =
                             [state |-> "resolved", value |-> b]
                      /\ rejectCalls' = rejectCalls
                      /\ currentRequestHandler' = NoHandler
                      /\ ~processingRequest'
                      /\ drainCallbacks' = drainCallbacks + 1]_vars

C30_Witness ==
    /\ future[1] = [state |-> "resolved", value |-> FailBody(1)]
    /\ future[2] = [state |-> "resolved", value |-> Body(2)]
    /\ future[3] = [state |-> "resolved", value |-> FailBody(3)]
    /\ delivered = <<1, 2, 3>>
    /\ rejectCalls = [n \in Ids |-> 0]

\* a step of the 'error' handler of the child
ProcessErrorStep == processErrors' # processErrors

\* C31: an 'error' notification of the child without an exit changes no
\* broker state: handle, queue, busy flag, pending call, timers, buffer and
\* futures stay as they were; a later submit that finds the handle is
\* still accepted: its request is queued or handled by the drain step.
C31_ProcessErrorChangesNothing ==
    [][/\ ProcessErrorStep =>
              UNCHANGED <<pythonProcess, requestQueue, processingRequest,
                          currentRequestHandler, timers, responseBuffer,
                          future, delivered, resolveCalls, rejectCalls,
                          drainCallbacks, stdinLog, lastLine, nextId>>
       /\ (SubmitStep /\ processErrors > 0 /\ ~ChildGone) =>
              /\ pythonProcess
              /\ future'[nextId].value # "not_running"
              /\ QueuedIds' \in {Append(QueuedIds, nextId),
                                Tail(Append(QueuedIds, nextId))}]_vars

C31_Witness ==
    /\ processErrors = 1
    /\ pythonProcess
    /\ currentRequestHandler.id = 1
    /\ currentRequestHandler.timeoutHandle \in timers
    /\ responseBuffer # <<>>
    /\ QueuedIds = <<2, 3>>

----------------------------------------------------------------------------
\* the categories whose tools list contains a tool name
CategoriesOf(toolName) ==
    {i \in DOMAIN toolCategories :
        \E k \in DOMAIN toolCategories[i].tools :
            toolCategories[i].tools[k] = toolName}

\* C33: once the registry is built, no tool name is both direct and routed,
\* the routed names are exactly the tools of the categories, each of them
\* is in exactly one category and getToolCategory returns that category,
\* and total_tools of getRegistryStats is the number of distinct names.
C33_RegistryPartition ==
    RegistryLoaded =>
        /\ \A n \in ToolNameInputs :
               /\ ~(IsDirectTool(n) /\ IsRoutedTool(n))
               /\ IsRoutedTool(n) <=> n \in RoutedToolSet
               /\ IsRoutedTool(n) =>
                      /\ Cardinality(CategoriesOf(n)) = 1
                      /\ \E i \in CategoriesOf(n) :
                             GetToolCategory(n) = toolCategories[i].name
               /\ ~IsRoutedTool(n) => GetToolCategory(n) = Undefined
        /\ GetRegistryStats.total_tools =
               Cardinality(DirectToolSet \cup RoutedToolSet)
        /\ registryCall.op = "getRegistryStats" =>
               registryCall.result.total_tools =
                   Cardinality(DirectToolSet \cup RoutedToolSet)
        /\ registryCall.op = "getToolCategory" =>
               \/ registryCall.result = Undefined
               \/ \E i \in CategoriesOf(registryCall.arg) :
                      registryCall.result = toolCategories[i].name

C33_Witness ==
    /\ registryCall.op = "getToolCategory"
    /\ registryCall.arg = "run_drc"
    /\ registryCall.result = "drc"
    /\ IsRoutedTool("run_drc")
    /\ ~IsDirectTool("run_drc")
    /\ IsDirectTool("get_board_info")
    /\ GetRegistryStats.total_tools = 60

\* the position of a routed tool in category-then-tool declaration order
DeclarationIndex(toolName) ==
    CHOOSE k \in DOMAIN GetRoutedToolNames :
        GetRoutedToolNames[k] = toolName

\* a search result names a routed tool with the category that declares it
ResultIsRouted(found) ==
    \E i \in CategoriesOf(found.tool) :
        found.category = toolCategories[i].name

\* the results are in strictly increasing declaration order
InDeclarationOrder(results) ==
    \A j, k \in DOMAIN results :
        j < k => DeclarationIndex(results[j].tool)
                     < DeclarationIndex(results[k].tool)

\* the lower-cased query occurs, as written, in the name of the tool or in
\* the name or the description of its category
ContainsAsWritten(found, q) ==
    \E i \in CategoriesOf(found.tool) :
        \/ Includes(found.tool, q)
        \/ Includes(toolCategories[i].name, q)
        \/ Includes(toolCategories[i].description, q)

\* the lower-cased query occurs in the lower-cased name of the tool or in
\* the lower-cased name or description of its category
ContainsIgnoringCase(found, q) ==
    \E i \in CategoriesOf(found.tool) :
        \/ Includes(ToLowerCase(found.tool), q)
        \/ Includes(ToLowerCase(toolCategories[i].name), q)
        \/ Includes(ToLowerCase(toolCategories[i].description), q)

\* C34 as stated: searchTools(query) returns at most 20 results, each a
\* routed tool whose name, category name or category description contains
\* the lower-cased query, in category-then-tool declaration order.
C34_SearchMatchesAsWritten ==
    registryCall.op = "searchTools" =>
        LET q == ToLowerCase(registryCall.arg)
            results == registryCall.result
        IN  /\ Len(results) <= SearchLimit
            /\ \A k \in DOMAIN results :
                   /\ ResultIsRouted(results[k])
                   /\ ContainsAsWritten(results[k], q)
            /\ InDeclarationOrder(results)

\* C34: searchTools(query) returns at most 20 results, each a routed tool
\* such that the lower-cased query occurs in its lower-cased name or in the
\* lower-cased name or description of its category, in category-then-tool
\* declaration order.
C34_SearchMatchesIgnoringCase ==
    registryCall.op = "searchTools" =>
        LET q == ToLowerCase(registryCall.arg)
            results == registryCall.result
        IN  /\ Len(results) <= SearchLimit
            /\ \A k \in DOMAIN results :
                   /\ ResultIsRouted(results[k])
                   /\ ContainsIgnoringCase(results[k], q)
            /\ InDeclarationOrder(results)

C34_Witness ==
    /\ registryCall.op = "searchTools"
    /\ registryCall.arg = "BOM"
    /\ Len(registryCall.result) = 8
    /\ registryCall.result[1].tool = "export_gerber"
    /\ registryCall.result[1].category = "export"
    /\ ~Includes(registryCall.result[1].tool, "bom")
    /\ Len(SearchTools("")) = SearchLimit

====
